---- MODULE Spec2Model ----
(***************************************************************************)
(* Dissent::Connections::ConnectionManager                                 *)
(* (src/src/Connections/ConnectionManager.cpp) as a state machine.         *)
(*                                                                         *)
(* The manager runs on one event loop: every handler runs to completion,   *)
(* so each handler is one action.  Signals connected to the manager's own  *)
(* slots (Connection::CalledDisconnect -> HandleDisconnect) are delivered  *)
(* inside the handler that raises them.  What the transport, the RPC layer *)
(* and the remote peer do between two handlers is a nondeterministic       *)
(* choice of the next event.                                               *)
(*                                                                         *)
(* Every handler is a function from the state it starts in (and its        *)
(* inputs) to the state it leaves and the list of what it emitted, sent    *)
(* and called, in program order; the action installs the state.            *)
(***************************************************************************)
EXTENDS Integers, Sequences, FiniteSets

\* ---------------------------------------------------------------- bounds
NumEdges == 2
MaxCons == 2

Edges == 1..NumEdges
Cons == 1..MaxCons

\* A null Connection pointer (the 0 the lookups are compared against).
NoCon == 0

\* Peer ids are byte strings; the empty string is a missing peer_id.
LocalId == "A"
RemoteIds == {"B"}
Ids == {LocalId} \cup RemoteIds
EmptyId == ""
Payloads == Ids \cup {EmptyId}

\* The address scheme of the model's transport.
Schemes == {"mem"}

VARIABLES
  closed,        \* _closed
  con_tab,       \* _con_tab: outbound edges and connections
  rem_con_tab,   \* _rem_con_tab: inbound edges and connections
  edge,          \* the Edge objects the transports produced
  con,           \* the Connection objects created by the handshake
  inquire,       \* per edge: is a CM::Inquire request awaiting its response
  listeners,     \* schemes with a registered EdgeListener
  stopped,       \* the edge factory was stopped
  emitted        \* the manager-level Disconnected event was emitted

vars == <<closed, con_tab, rem_con_tab, edge, con, inquire, listeners, stopped,
          emitted>>

\* ------------------------------------------------------- ConnectionTable
EmptyTable ==
  [edges |-> {},
   id_to_con |-> [p \in Ids |-> NoCon],
   edge_to_con |-> [e \in Edges |-> NoCon]]

AddEdge(t, e) == [t EXCEPT !.edges = @ \cup {e}]

RemoveEdge(t, e) == [t EXCEPT !.edges = @ \ {e}]

GetEdge(t, e) == e \in t.edges

GetConnection(t, p) == t.id_to_con[p]

\* The connections a table holds, through either index.
GetConnections(t) ==
  ({t.id_to_con[p] : p \in Ids} \cup {t.edge_to_con[e] : e \in Edges}) \ {NoCon}

Contains(t, c) == c \in GetConnections(t)

AddConnection(t, c, rid, e) ==
  [t EXCEPT !.id_to_con[rid] = c, !.edge_to_con[e] = c]

\* Takes the connection out of the PeerId index, keeps it in the edge index.
TableDisconnect(t, c) ==
  [t EXCEPT !.id_to_con = [p \in Ids |-> IF @[p] = c THEN NoCon ELSE @[p]]]

RemoveConnection(t, c) ==
  [t EXCEPT !.id_to_con = [p \in Ids |-> IF @[p] = c THEN NoCon ELSE @[p]],
            !.edge_to_con = [e \in Edges |-> IF @[e] = c THEN NoCon ELSE @[e]]]

\* ------------------------------------------------------------------ Edge
\* phase: "unused" (not made yet), "pending" (made by a transport, its NewEdge
\* signal is queued), "adopted" (HandleNewEdge ran), "dead" (released by the
\* table and by every connection, so destroyed).
NewEdgeObject == [phase |-> "unused", outbound |-> FALSE, closed |-> FALSE,
                  signalled |-> FALSE]
DeadEdgeObject == [phase |-> "dead", outbound |-> FALSE, closed |-> TRUE,
                   signalled |-> TRUE]

\* Edge::Close: closes the edge (closed is monotonic); the Closed event follows
\* later, from the event loop.  The reason is in the handler's output.
EdgeClose(eds, e, reason) ==
  IF eds[e].closed THEN eds
  ELSE [eds EXCEPT ![e].closed = TRUE]

\* ------------------------------------------------------------ Connection
\* state "None": not created yet; "Disconnected": destroyed after its
\* Disconnected signal.
NewConObject == [state |-> "None", edge |-> 0, remote_id |-> EmptyId]
DeadConObject == [state |-> "Disconnected", edge |-> 0, remote_id |-> EmptyId]

Alive(cs, c) == cs[c].state \in {"Live", "DisconnectRequested"}

\* --------------------------------------------------------------- outputs
\* One entry of a handler's output: an event emitted, a message sent or a call
\* made on a collaborator.  ok records, for an emitted event, what the tables
\* and the closed flag looked like at the emit statement.
EvSnap(type, e, c, arg, ok) == [type |-> type, edge |-> e, con |-> c,
                                arg |-> arg, ok |-> ok]
Ev(type, e, c, arg) == EvSnap(type, e, c, arg, TRUE)

\* The state a handler starts in, as the record it threads through its calls.
Cur == [closed |-> closed, ct |-> con_tab, rct |-> rem_con_tab, edge |-> edge,
        con |-> con, inquire |-> inquire, listeners |-> listeners,
        stopped |-> stopped, emitted |-> emitted, out |-> <<>>]

Emit(M, evs) == [M EXCEPT !.out = @ \o evs]

\* An edge is a QSharedPointer: it lives while a table or a connection holds
\* it.  Released by all of them after its Closed signal, it is destroyed.
Held(M, e) ==
  \/ e \in M.ct.edges \cup M.rct.edges
  \/ \E c \in Cons : Alive(M.con, c) /\ M.con[c].edge = e

\* The edges that reported Closed and that nothing holds any more.
Gone(M) ==
  {e \in Edges : M.edge[e].phase = "adopted" /\ M.edge[e].signalled /\ ~Held(M, e)}

Destroy(M, G) ==
  IF G = {} THEN M
  ELSE [M EXCEPT !.edge = [e \in Edges |-> IF e \in G THEN DeadEdgeObject ELSE @[e]],
                 !.inquire = [e \in Edges |-> IF e \in G THEN FALSE ELSE @[e]]]

Release(M) == Destroy(M, Gone(M))

Becomes(R) ==
  /\ closed' = R.closed
  /\ con_tab' = R.ct
  /\ rem_con_tab' = R.rct
  /\ edge' = R.edge
  /\ con' = R.con
  /\ inquire' = R.inquire
  /\ listeners' = R.listeners
  /\ stopped' = R.stopped
  /\ emitted' = R.emitted

\* The state a handler leaves becomes the next state.
Install(M) == Becomes(Release(M))

Init ==
  /\ closed = FALSE
  /\ con_tab = EmptyTable
  /\ rem_con_tab = EmptyTable
  /\ edge = [e \in Edges |-> NewEdgeObject]
  /\ con = [c \in Cons |-> NewConObject]
  /\ inquire = [e \in Edges |-> FALSE]
  /\ listeners = {}
  /\ stopped = FALSE
  /\ emitted = FALSE

\* ----------------------------------------------------- the edge factory
\* EdgeFactory::CreateEdgeTo: true when a registered listener takes the scheme.
CreateEdgeTo(M, s) == s \in M.listeners

Unused == {e \in Edges : edge[e].phase = "unused"}
Adopted == {e \in Edges : edge[e].phase = "adopted"}
Created == {c \in Cons : con[c].state # "None"}
\* The next Connection the handshake allocates.
NextCon == Cardinality(Created) + 1

\* A transport makes an Edge; its NewEdge signal is queued for the manager.
\* Edges we dial are numbered from the low end, edges dialed to us from the
\* high end.
Produce(eds, outbound) ==
  LET free == {e \in Edges : eds[e].phase = "unused"}
  IN IF free = {} THEN eds
     ELSE LET e == CHOOSE x \in free :
                     \A y \in free : IF outbound THEN x <= y ELSE x >= y
          IN [eds EXCEPT ![e].phase = "pending", ![e].outbound = outbound]

\* ------------------------------------------------------------- handlers
AddEdgeListenerRun(M, s) ==
  IF M.closed THEN M
  ELSE [M EXCEPT !.listeners = @ \cup {s}]

AddEdgeListener(s) ==
  /\ s \in Schemes
  /\ Install(AddEdgeListenerRun(Cur, s))

\* Lines 48-51: ConnectTo past its guard.
ConnectToDial(M, s) ==
  IF CreateEdgeTo(M, s)
  THEN Emit([M EXCEPT !.edge = Produce(@, TRUE)],
            <<Ev("CreateEdgeTo", 0, NoCon, s)>>)
  ELSE Emit(M, <<Ev("ConnectionAttemptFailure", 0, NoCon,
                    "No EdgeListener to handle request")>>)

\* Fault: ConnectTo without its guard on _closed (lines 43-46).
ConnectToRunUnguarded(M, s) == ConnectToDial(M, s)

ConnectToRun(M, s) ==
  IF M.closed THEN M
  ELSE ConnectToDial(M, s)

ConnectTo(s) ==
  /\ s \in Schemes
  /\ Install(ConnectToRun(Cur, s))

\* A remote node dials one of our listeners: the transport makes an inbound
\* edge.  A stopped factory makes no more edges.
RemoteDial ==
  /\ ~stopped
  /\ listeners # {}
  /\ Unused # {}
  /\ Install([Cur EXCEPT !.edge = Produce(@, FALSE)])

\* Fault: HandleNewEdge without its test of Outbound() (lines 100-103).
AdoptOutboundAlways(M, e) == TRUE

\* The table HandleNewEdge puts an edge in: TRUE for _con_tab.
AdoptOutbound(M, e) == M.edge[e].outbound

HandleNewEdgeRun(M, e) ==
  LET M1 == [M EXCEPT !.edge[e].phase = "adopted"]
  IN IF ~AdoptOutbound(M, e)
     THEN [M1 EXCEPT !.rct = AddEdge(@, e)]
     ELSE Emit([M1 EXCEPT !.ct = AddEdge(@, e), !.inquire[e] = TRUE],
               <<Ev("SendInquire", e, NoCon, LocalId)>>)

\* The transport delivers the queued NewEdge signal of an edge it made.
CanHandleNewEdge(e) == edge[e].phase = "pending"

HandleNewEdge(e) ==
  /\ CanHandleNewEdge(e)
  /\ Install(HandleNewEdgeRun(Cur, e))

HandleEdgeCreationFailureRun(M, s) ==
  Emit(M, <<Ev("ConnectionAttemptFailure", 0, NoCon, "EdgeCreationFailure")>>)

HandleEdgeCreationFailure(s) ==
  /\ s \in listeners
  /\ Install(HandleEdgeCreationFailureRun(Cur, s))

\* The senders a message can come from: an adopted edge, or a connection.
IsSender(kind, from) ==
  \/ kind = "edge" /\ from \in Adopted
  \/ kind = "con" /\ from \in Created /\ Alive(con, from)

\* A message whose kind of sender makes the handler drop it comes from the
\* first such sender: the handler does not read which one it is.
FirstCon(c) == IsSender("con", c) /\ \A d \in Cons : IsSender("con", d) => c <= d
FirstEdge(e) == e \in Adopted /\ \A d \in Adopted : e <= d

InquireRun(M, kind, from) ==
  Emit(M, <<Ev("InquireResponse", from, NoCon, LocalId)>>)

\* The remote dialer asks who we are, on an inbound edge that is open.
Inquire(kind, from) ==
  /\ IsSender(kind, from)
  /\ kind = "edge" /\ ~edge[from].outbound /\ ~edge[from].closed
  /\ Install(InquireRun(Cur, kind, from))

\* ConnectionTable::Disconnect on the table that holds c, with the mark it
\* leaves on the connection.
MarkDisconnect(M, c, inOut) ==
  [M EXCEPT
     !.ct = IF inOut THEN TableDisconnect(@, c) ELSE @,
     !.rct = IF inOut THEN @ ELSE TableDisconnect(@, c),
     !.con = IF (Contains(M.ct, c) \/ Contains(M.rct, c)) /\ @[c].state = "Live"
             THEN [@ EXCEPT ![c].state = "DisconnectRequested"] ELSE @]

\* Fault: HandleDisconnect without its Close call (line 256).
HandleDisconnectNoClose(M, c) ==
  LET M1 == MarkDisconnect(M, c, Contains(M.ct, c))
      e == M.con[c].edge
  IN Emit(M1, <<Ev("SendDisconnect", e, c, "")>>)

\* Slot of Connection::CalledDisconnect; Connection::Disconnect raises the
\* signal, so con->Disconnect() runs this before it returns.
HandleDisconnect(M, c) ==
  LET M1 == MarkDisconnect(M, c, Contains(M.ct, c))
      e == M.con[c].edge
  IN [Emit(M1, <<Ev("SendDisconnect", e, c, ""),
                 Ev("EdgeClose", e, c, "Local disconnect request")>>)
        EXCEPT !.edge = EdgeClose(@, e, "Local disconnect request")]

\* The application calls Connection::Disconnect on a live connection.
CalledDisconnect(c) ==
  /\ c \in Created
  /\ con[c].state = "Live"
  /\ Install(HandleDisconnect(Cur, c))

\* Fault: Inquired without its duplicate test (lines 157-167).
InquiredOutcomeNoDuplicateTest(M, kind, from, pid) ==
  IF kind # "edge" THEN "drop"
  ELSE IF ~M.edge[from].outbound THEN "drop"
  ELSE IF pid = EmptyId THEN "drop"
  ELSE IF pid = LocalId THEN "self"
  ELSE IF ~GetEdge(M.ct, from) THEN "norecord"
  ELSE "promote"

\* Fault: Inquired without its test of the edge's direction (lines 132-135).
InquiredOutcomeNoInboundTest(M, kind, from, pid) ==
  IF kind # "edge" THEN "drop"
  ELSE IF pid = EmptyId THEN "drop"
  ELSE IF pid = LocalId THEN "self"
  ELSE IF GetConnection(M.ct, pid) # NoCon THEN "duplicate"
  ELSE IF ~GetEdge(M.ct, from) THEN "norecord"
  ELSE "promote"

\* Which branch of Inquired a response takes (lines 127-174).
InquiredOutcome(M, kind, from, pid) ==
  IF kind # "edge" THEN "drop"
  ELSE IF ~M.edge[from].outbound THEN "drop"
  ELSE IF pid = EmptyId THEN "drop"
  ELSE IF pid = LocalId THEN "self"
  ELSE IF GetConnection(M.ct, pid) # NoCon THEN "duplicate"
  ELSE IF ~GetEdge(M.ct, from) THEN "norecord"
  ELSE "promote"

\* Fault: a refusal that does not emit ConnectionAttemptFailure.
InquiredRefuseNoFailure(M, e, reason) ==
  [Emit(M, <<Ev("SendClose", e, NoCon, ""),
             Ev("EdgeClose", e, NoCon, reason)>>)
     EXCEPT !.edge = EdgeClose(@, e, reason)]

\* Lines 148-153 and 160-165: refuse the edge.
InquiredRefuse(M, e, reason) ==
  [Emit(M, <<Ev("SendClose", e, NoCon, ""),
             Ev("EdgeClose", e, NoCon, reason),
             Ev("ConnectionAttemptFailure", e, NoCon, reason)>>)
     EXCEPT !.edge = EdgeClose(@, e, reason)]

\* Fault: NewConnection emitted before AddConnection.
InquiredPromoteEmitFirst(M, e, pid) ==
  LET c == NextCon
      ct == AddConnection(M.ct, c, pid, e)
  IN [Emit(M, <<Ev("SendConnect", e, NoCon, LocalId),
                EvSnap("NewConnection", e, c, "local",
                       GetConnection(M.ct, pid) = c)>>)
        EXCEPT !.ct = ct,
               !.con[c] = [state |-> "Live", edge |-> e, remote_id |-> pid]]

\* Lines 176-189: promote the edge to a connection.
InquiredPromote(M, e, pid) ==
  LET c == NextCon
      ct == AddConnection(M.ct, c, pid, e)
  IN [Emit(M, <<Ev("SendConnect", e, NoCon, LocalId),
                EvSnap("NewConnection", e, c, "local",
                       GetConnection(ct, pid) = c)>>)
        EXCEPT !.ct = ct,
               !.con[c] = [state |-> "Live", edge |-> e, remote_id |-> pid]]

\* Fault: a duplicate response that also disconnects the old connection.
InquiredRunReplacing(M, kind, from, pid) ==
  LET o == InquiredOutcome(M, kind, from, pid)
      M1 == IF kind = "edge" THEN [M EXCEPT !.inquire[from] = FALSE] ELSE M
  IN CASE o = "self" ->
            InquiredRefuse(M1, from, "Attempting to connect to ourself")
       [] o = "duplicate" ->
            InquiredRefuse(HandleDisconnect(M1, GetConnection(M1.ct, pid)),
                           from, "Duplicate connection")
       [] o = "promote" -> InquiredPromote(M1, from, pid)
       [] OTHER -> M1

\* The response callback of the CM::Inquire request: the RPC layer pairs a
\* response with its request, so it runs at most once for a request.
InquiredRun(M, kind, from, pid) ==
  LET o == InquiredOutcome(M, kind, from, pid)
      M1 == IF kind = "edge" THEN [M EXCEPT !.inquire[from] = FALSE] ELSE M
  IN CASE o = "self" ->
            InquiredRefuse(M1, from, "Attempting to connect to ourself")
       [] o = "duplicate" -> InquiredRefuse(M1, from, "Duplicate connection")
       [] o = "promote" -> InquiredPromote(M1, from, pid)
       [] OTHER -> M1

CanInquired(kind, from, pid) ==
  /\ IsSender(kind, from)
  /\ kind = "edge" => (inquire[from] \/ ~edge[from].outbound)
  /\ InquiredOutcome(Cur, kind, from, pid) = "promote" => NextCon <= MaxCons

Inquired(kind, from, pid) ==
  /\ CanInquired(kind, from, pid)
  /\ Install(InquiredRun(Cur, kind, from, pid))

\* Fault: Connect without the disconnect of the old connection (lines 211-213).
ConnectOldKept(M, pid) == M

\* Lines 208-213: an old inbound connection to the same peer is disconnected.
ConnectOld(M, pid) ==
  LET old_con == GetConnection(M.rct, pid)
  IN IF old_con # NoCon THEN HandleDisconnect(M, old_con) ELSE M

\* Lines 222-229.
ConnectPromote(M, e, pid) ==
  LET c == NextCon
      rct == AddConnection(M.rct, c, pid, e)
  IN [Emit(M, <<EvSnap("NewConnection", e, c, "remote",
                       GetConnection(rct, pid) = c)>>)
        EXCEPT !.rct = rct,
               !.con[c] = [state |-> "Live", edge |-> e, remote_id |-> pid]]

\* Does this CM::Connect get as far as creating a Connection?
ConnectCreates(M, kind, from, pid) ==
  kind = "edge" /\ pid # EmptyId /\ GetEdge(ConnectOld(M, pid).rct, from)

ConnectRun(M, kind, from, pid) ==
  IF kind # "edge" \/ pid = EmptyId THEN M
  ELSE LET M1 == ConnectOld(M, pid)
       IN IF ~GetEdge(M1.rct, from) THEN M1
          ELSE ConnectPromote(M1, from, pid)

CanConnect(kind, from, pid) ==
  /\ IsSender(kind, from)
  /\ ConnectCreates(Cur, kind, from, pid) => NextCon <= MaxCons

Connect(kind, from, pid) ==
  /\ CanConnect(kind, from, pid)
  /\ Install(ConnectRun(Cur, kind, from, pid))

CloseRun(M, kind, from) ==
  IF kind # "edge" THEN M
  ELSE [Emit(M, <<Ev("EdgeClose", from, NoCon, "Closed from remote peer")>>)
          EXCEPT !.edge = EdgeClose(@, from, "Closed from remote peer")]

Close(kind, from) ==
  /\ IsSender(kind, from)
  /\ Install(CloseRun(Cur, kind, from))

HandleDisconnectedRun(M, c) ==
  IF M.edge[M.con[c].edge].outbound
  THEN [M EXCEPT !.ct = RemoveConnection(@, c), !.con[c] = DeadConObject]
  ELSE [M EXCEPT !.rct = RemoveConnection(@, c), !.con[c] = DeadConObject]

\* The connection's terminal Disconnected signal, raised once its edge closed.
CanHandleDisconnected(c) ==
  c \in Created /\ Alive(con, c) /\ edge[con[c].edge].closed

HandleDisconnected(c) ==
  /\ CanHandleDisconnected(c)
  /\ Install(HandleDisconnectedRun(Cur, c))

\* ConnectionManager::Disconnect(RpcRequest &): the CM::Disconnect notification.
DisconnectNotificationRun(M, kind, from) ==
  IF kind # "con" THEN M
  ELSE LET M1 == MarkDisconnect(M, from, ~Contains(M.rct, from))
           e == M.con[from].edge
       IN [Emit(M1, <<Ev("EdgeClose", e, from, "Remote disconnect")>>)
             EXCEPT !.edge = EdgeClose(@, e, "Remote disconnect")]

DisconnectNotification(kind, from) ==
  /\ IsSender(kind, from)
  /\ Install(DisconnectNotificationRun(Cur, kind, from))

\* The snapshot a Disconnected event carries: the closed flag and the emptiness
\* of the two edge sets at the emit statement.
Drained(M) == M.closed /\ M.ct.edges = {} /\ M.rct.edges = {}

EmitDisconnected(M) ==
  [Emit(M, <<EvSnap("Disconnected", 0, NoCon, "", Drained(M))>>)
     EXCEPT !.emitted = TRUE]

\* Fault: HandleEdgeClose without its test of _closed (lines 295-297).
EdgeCloseEmitsUnguarded(M) == M.ct.edges = {} /\ M.rct.edges = {}

\* Lines 295-301: does HandleEdgeClose emit Disconnected?
EdgeCloseEmits(M) ==
  IF ~M.closed THEN FALSE
  ELSE M.ct.edges = {} /\ M.rct.edges = {}

\* Line 290: the table HandleEdgeClose removes the edge from, TRUE for _con_tab.
CloseOutbound(M, e) == M.edge[e].outbound

HandleEdgeCloseRun(M, e) ==
  LET M1 == IF CloseOutbound(M, e) THEN [M EXCEPT !.ct = RemoveEdge(@, e)]
            ELSE [M EXCEPT !.rct = RemoveEdge(@, e)]
  IN IF EdgeCloseEmits(M1) THEN EmitDisconnected(M1) ELSE M1

\* Slot of Edge::Closed, which an edge raises once after it was closed.
CanHandleEdgeClose(e) == e \in Adopted /\ edge[e].closed /\ ~edge[e].signalled

\* The edge's Closed signal is raised and delivered to the slot.
Signal(M, e) == [M EXCEPT !.edge[e].signalled = TRUE]

HandleEdgeClose(e) ==
  /\ CanHandleEdgeClose(e)
  /\ Install(HandleEdgeCloseRun(Signal(Cur, e), e))

\* The foreach loops of Disconnect(), in ascending order of identity.
RECURSIVE DisconnectCons(_, _)
DisconnectCons(M, S) ==
  IF S = {} THEN M
  ELSE LET c == CHOOSE x \in S : \A y \in S : x <= y
       IN DisconnectCons(HandleDisconnect(M, c), S \ {c})

RECURSIVE CloseEdges(_, _)
CloseEdges(M, S) ==
  IF S = {} THEN M
  ELSE LET e == CHOOSE x \in S : \A y \in S : x <= y
           M1 == IF M.edge[e].closed THEN M
                 ELSE [Emit(M, <<Ev("EdgeClose", e, NoCon, "Disconnecting")>>)
                         EXCEPT !.edge = EdgeClose(@, e, "Disconnecting")]
       IN CloseEdges(M1, S \ {e})

\* Line 61.
SetClosed(M) == [M EXCEPT !.closed = TRUE]
\* Lines 63-64.
EmitDis(M) == M.ct.edges = {} /\ M.rct.edges = {}
\* Lines 66-68 and 70-72.
DisconnectOut(M) == DisconnectCons(M, GetConnections(M.ct))
DisconnectIn(M) == DisconnectCons(M, GetConnections(M.rct))
\* Lines 74-78 and 80-84.
CloseOut(M) == CloseEdges(M, M.ct.edges)
CloseIn(M) == CloseEdges(M, M.rct.edges)
\* Line 86.
FactoryStop(M) ==
  Emit([M EXCEPT !.stopped = TRUE], <<Ev("FactoryStop", 0, NoCon, "")>>)
\* Lines 88-90.
DisconnectEnd(M, emit_dis) == IF emit_dis THEN EmitDisconnected(M) ELSE M

\* Lines 61-90: the first Disconnect().
DisconnectFirst(M) ==
  DisconnectEnd(
    FactoryStop(CloseIn(CloseOut(DisconnectIn(DisconnectOut(SetClosed(M)))))),
    EmitDis(M))

\* Fault: Disconnect() without its guard on _closed (lines 56-59).
DisconnectRunUnguarded(M) == DisconnectFirst(M)

DisconnectRun(M) ==
  IF M.closed THEN M
  ELSE DisconnectFirst(M)

Disconnect ==
  /\ TRUE
  /\ Install(DisconnectRun(Cur))

\* The remote end or the transport closes an edge.
TransportClose(e) ==
  /\ e \in Adopted
  /\ ~edge[e].closed
  /\ Install([Cur EXCEPT !.edge = EdgeClose(@, e, "Transport")])

\* Messages the handlers drop for their kind of sender.
InquiredNonEdge(c) == FirstCon(c) /\ Inquired("con", c, LocalId)
InquiredInbound(e) == ~edge[e].outbound /\ Inquired("edge", e, LocalId)
InquiredOutbound(e, p) == edge[e].outbound /\ Inquired("edge", e, p)
ConnectNonEdge(c) == FirstCon(c) /\ Connect("con", c, LocalId)
CloseNonEdge(c) == FirstCon(c) /\ Close("con", c)
DisconnectNonCon(e) == FirstEdge(e) /\ DisconnectNotification("edge", e)

Next ==
  \/ \E s \in Schemes : AddEdgeListener(s)
  \/ \E s \in Schemes : ConnectTo(s)
  \/ RemoteDial
  \/ \E e \in Edges : HandleNewEdge(e)
  \/ \E s \in Schemes : HandleEdgeCreationFailure(s)
  \/ \E e \in Edges : Inquire("edge", e)
  \/ \E e \in Edges, p \in Payloads : InquiredOutbound(e, p)
  \/ \E e \in Edges : InquiredInbound(e)
  \/ \E c \in Cons : InquiredNonEdge(c)
  \/ \E e \in Edges, p \in Payloads : Connect("edge", e, p)
  \/ \E c \in Cons : ConnectNonEdge(c)
  \/ \E e \in Edges : Close("edge", e)
  \/ \E c \in Cons : CloseNonEdge(c)
  \/ \E c \in Cons : CalledDisconnect(c)
  \/ \E c \in Cons : HandleDisconnected(c)
  \/ \E c \in Cons : DisconnectNotification("con", c)
  \/ \E e \in Edges : DisconnectNonCon(e)
  \/ \E e \in Edges : HandleEdgeClose(e)
  \/ \E e \in Edges : TransportClose(e)
  \/ Disconnect

Spec == Init /\ [][Next]_vars

\* ====================================================================
\* Properties.  A handler's run is a function of the state it starts in, so
\* "whenever the handler emits X, Y holds" is stated over every run that is
\* enabled in a reachable state.
\* ====================================================================
Count(M, type) == Cardinality({i \in 1..Len(M.out) : M.out[i].type = type})
Has(M, type) == \E i \in 1..Len(M.out) : M.out[i].type = type
Events(M, type) == {M.out[i] : i \in {j \in 1..Len(M.out) : M.out[j].type = type}}

\* The runs that can emit the manager-level Disconnected event.
DisconnectedRuns ==
  {DisconnectRun(Cur)} \cup
  {HandleEdgeCloseRun(Signal(Cur, e), e) : e \in {x \in Edges : CanHandleEdgeClose(x)}}

\* C1: the manager-level Disconnected event is emitted at most once per manager
\* lifetime: once it has been emitted, no handler emits it again.
C1_DisconnectedAtMostOnce ==
  emitted => \A R \in DisconnectedRuns : ~Has(R, "Disconnected")

\* C2: whenever Disconnected is emitted, from Disconnect() or from
\* HandleEdgeClose, the closed flag is set and both tables hold no edge, at the
\* emit statement and when the handler returns.
C2_DisconnectedOnlyWhenDrained ==
  \A R \in DisconnectedRuns :
    \A ev \in Events(R, "Disconnected") : ev.ok /\ Drained(R)

\* C2 witness: Disconnected was emitted by a handler that left the manager
\* closed and drained.
C2_Witness == emitted /\ Drained(Cur)

\* The Inquired responses that can arrive for an adopted outbound edge.
Responses == {x \in Edges \X Payloads :
                edge[x[1]].outbound /\ CanInquired("edge", x[1], x[2])}

\* Outcome (a): one CM::Connect and one NewConnection, nothing of (b).
Promoted(R) ==
  /\ Count(R, "SendConnect") = 1 /\ Count(R, "NewConnection") = 1
  /\ Count(R, "SendClose") = 0 /\ Count(R, "ConnectionAttemptFailure") = 0
\* Outcome (b): one CM::Close and one ConnectionAttemptFailure, nothing of (a).
Refused(R) ==
  /\ Count(R, "SendClose") = 1 /\ Count(R, "ConnectionAttemptFailure") = 1
  /\ Count(R, "SendConnect") = 0 /\ Count(R, "NewConnection") = 0
Neither(R) ==
  /\ Count(R, "SendClose") = 0 /\ Count(R, "ConnectionAttemptFailure") = 0
  /\ Count(R, "SendConnect") = 0 /\ Count(R, "NewConnection") = 0

\* CM::Inquire is sent once for an outbound edge: by HandleNewEdge, which
\* finds no request outstanding, and by no response or notification handler.
InquireOnce ==
  /\ \A e \in Edges : CanHandleNewEdge(e) =>
       /\ ~inquire[e]
       /\ Count(HandleNewEdgeRun(Cur, e), "SendInquire") <= 1
  /\ \A x \in Responses :
       Count(InquiredRun(Cur, "edge", x[1], x[2]), "SendInquire") = 0

\* C3 as stated: CM::Inquire is sent at most once for an outbound edge, and
\* every Inquired response for it produces exactly one of the outcomes (a) and
\* (b), never both and never neither.
C3_ExactlyOneOutcome ==
  /\ InquireOnce
  /\ \A x \in Responses :
       LET R == InquiredRun(Cur, "edge", x[1], x[2])
       IN (Promoted(R) \/ Refused(R)) /\ ~(Promoted(R) /\ Refused(R))

\* C3 amended: CM::Inquire is sent at most once for an outbound edge; an
\* Inquired response with a non-empty peer_id, for an edge that is in the
\* outbound table, produces exactly one of the outcomes (a) and (b); a response
\* with an empty peer_id produces neither; no response produces both.
C3_OneOutcomeForAnId ==
  /\ InquireOnce
  /\ \A x \in Responses :
       LET R == InquiredRun(Cur, "edge", x[1], x[2])
       IN /\ ~(Promoted(R) /\ Refused(R))
          /\ (x[2] # EmptyId /\ GetEdge(con_tab, x[1])) =>
               (Promoted(R) \/ Refused(R))
          /\ x[2] = EmptyId => Neither(R)

\* C3 witness: a response has promoted one outbound edge to a connection, and
\* the response of a second outbound edge, naming the same peer, is refused.
C3_Witness ==
  \E x \in Responses :
    /\ x[2] \in RemoteIds
    /\ GetConnection(con_tab, x[2]) # NoCon
    /\ GetEdge(con_tab, x[1])
    /\ Refused(InquiredRun(Cur, "edge", x[1], x[2]))

Tables == <<con_tab, rem_con_tab>>

\* The connections a table has registered: held by it and not disconnected.
Registered(t) == {c \in GetConnections(t) : con[c].state = "Live"}

\* C4: in each table, no two registered connections have the same remote peer
\* id, and the PeerId index finds a connection under its own remote id only.
C4_PeerIdInjective ==
  \A i \in 1..2 :
    /\ \A c1, c2 \in Registered(Tables[i]) :
         c1 # c2 => con[c1].remote_id # con[c2].remote_id
    /\ \A p \in Ids : Tables[i].id_to_con[p] # NoCon =>
         con[Tables[i].id_to_con[p]].remote_id = p

\* C4 witness: a table holds two connections to the same peer, the older one
\* disconnected and the newer one registered.
C4_Witness ==
  \E i \in 1..2 : \E c1, c2 \in GetConnections(Tables[i]) :
    /\ con[c1].remote_id = con[c2].remote_id
    /\ con[c1].state = "DisconnectRequested"
    /\ con[c2].state = "Live"

\* C5: for every connection a table holds, the connection's edge is in that
\* table's edge set.
C5_ConnectionEdgeInTable ==
  \A i \in 1..2 : \A c \in GetConnections(Tables[i]) :
    con[c].edge \in Tables[i].edges

\* C6: no edge is in both tables; the outbound table holds exactly the adopted
\* outbound edges whose Closed event has not been handled, the inbound table
\* exactly such inbound edges: an edge is put in the table of its direction at
\* adoption and leaves it, for no other table, at its Closed event.
C6_EdgeInOneTable ==
  /\ con_tab.edges \cap rem_con_tab.edges = {}
  /\ \A e \in Edges :
       LET in_use == edge[e].phase = "adopted" /\ ~edge[e].signalled
       IN /\ e \in con_tab.edges <=> (in_use /\ edge[e].outbound)
          /\ e \in rem_con_tab.edges <=> (in_use /\ ~edge[e].outbound)

\* C6 witness: a table holds an edge that is closed and awaits its Closed
\* event, after another edge has left its table at its Closed event.
C6_Witness ==
  \E e1, e2 \in Edges :
    /\ e1 \in con_tab.edges \cup rem_con_tab.edges /\ edge[e1].closed
    /\ edge[e2].signalled

\* C7: no two connections held by the tables refer to the same edge.
C7_EdgeExclusivelyOwned ==
  \A c1, c2 \in GetConnections(con_tab) \cup GetConnections(rem_con_tab) :
    c1 # c2 => con[c1].edge # con[c2].edge

\* C8: with the closed flag set, ConnectTo returns without calling the edge
\* factory, without emitting ConnectionAttemptFailure and without any effect.
C8_NoDialAfterDisconnect ==
  closed => \A s \in Schemes :
    LET R == ConnectToRun(Cur, s)
    IN ~Has(R, "CreateEdgeTo") /\ ~Has(R, "ConnectionAttemptFailure") /\ R = Cur

\* C8 witness: the manager is closed while a listener is registered that
\* would take the address and the transport could still make an edge.
C8_Witness ==
  closed /\ \E s \in Schemes : CreateEdgeTo(Cur, s) /\ Unused # {}

\* C9: with the closed flag set, Disconnect() changes nothing and emits,
\* sends and calls nothing.
C9_DisconnectIdempotent ==
  closed => DisconnectRun(Cur) = Cur

\* C9 witness: after the first Disconnect() a table holds an open edge and a
\* live connection, which a first Disconnect() would close and disconnect.
C9_Witness ==
  /\ closed
  /\ \E c \in Registered(con_tab) \cup Registered(rem_con_tab) :
       ~edge[con[c].edge].closed

\* The handshake runs that can emit NewConnection.
PromotionRuns ==
  {InquiredRun(Cur, "edge", x[1], x[2]) : x \in Responses} \cup
  {ConnectRun(Cur, "edge", x[1], x[2]) :
     x \in {y \in Edges \X Payloads : CanConnect("edge", y[1], y[2])}}

\* C10: when NewConnection(con, locally_initiated) is emitted, con is already
\* registered under its remote id: in the outbound table when
\* locally_initiated, in the inbound table when not.
C10_NewConnectionAfterInsert ==
  \A R \in PromotionRuns : \A ev \in Events(R, "NewConnection") :
    /\ ev.ok
    /\ R.con[ev.con].state = "Live"
    /\ ev.arg = "local" => GetConnection(R.ct, R.con[ev.con].remote_id) = ev.con
    /\ ev.arg = "remote" => GetConnection(R.rct, R.con[ev.con].remote_id) = ev.con

\* C10 witness: both handshakes have announced a connection: each table has a
\* registered connection.
C10_Witness ==
  /\ \E p \in Ids : GetConnection(con_tab, p) # NoCon
  /\ \E p \in Ids : GetConnection(rem_con_tab, p) # NoCon

\* The responses that name a peer the outbound table has a connection to.
Duplicates == {x \in Responses : x[2] \in RemoteIds /\ GetConnection(con_tab, x[2]) # NoCon}

\* C11: an Inquired response on an outbound edge E2 that names a peer the
\* outbound table already has a connection to leaves both tables and every
\* connection as they were (the old connection stays registered under the peer
\* id, on another edge than E2), creates no connection, emits no
\* NewConnection, and does exactly this: CM::Close sent on E2, E2 closed with
\* reason "Duplicate connection", ConnectionAttemptFailure emitted.
C11_DuplicateLeavesOldConnection ==
  \A x \in Duplicates : \A R \in {InquiredRun(Cur, "edge", x[1], x[2])} :
    LET old == GetConnection(con_tab, x[2])
    IN /\ R.ct = con_tab /\ R.rct = rem_con_tab /\ R.con = con
       /\ GetConnection(R.ct, x[2]) = old
       /\ con[old].edge # x[1]
       /\ R.edge = [edge EXCEPT ![x[1]].closed = TRUE]
       /\ R.closed = closed
       /\ R.out = <<Ev("SendClose", x[1], NoCon, ""),
                    Ev("EdgeClose", x[1], NoCon, "Duplicate connection"),
                    Ev("ConnectionAttemptFailure", x[1], NoCon,
                       "Duplicate connection")>>

\* C11 witness: a duplicate response can arrive on an open edge while the old
\* connection is live on an open edge of its own.
C11_Witness ==
  \E x \in Duplicates :
    LET old == GetConnection(con_tab, x[2])
    IN /\ con[old].state = "Live"
       /\ ~edge[con[old].edge].closed
       /\ ~edge[x[1]].closed

\* The reason of the Close call that closed edge e in run R: the first Close
\* call on e, which found it open ("" when R makes no Close call on e).
FirstClose(R, e) ==
  LET I == {i \in 1..Len(R.out) : R.out[i].type = "EdgeClose" /\ R.out[i].edge = e}
  IN IF I = {} THEN ""
     ELSE R.out[CHOOSE i \in I : \A j \in I : i <= j].arg

\* CM::Disconnect notifications run R sends on connection c.
Notified(R, c) ==
  Cardinality({i \in 1..Len(R.out) :
                 R.out[i].type = "SendDisconnect" /\ R.out[i].con = c})

\* The first Disconnect() is about to run with a live connection in each table.
LiveInBoth == ~closed /\ Registered(con_tab) # {} /\ Registered(rem_con_tab) # {}

LiveCons == Registered(con_tab) \cup Registered(rem_con_tab)

\* What C12 says of the notifications, the factory and the Disconnected event,
\* for a reason of closure r.
ShutdownDrain(r) ==
  LiveInBoth =>
    \A R \in {DisconnectRun(Cur)} :
       /\ \A c \in LiveCons :
            /\ Notified(R, c) = 1
            /\ R.edge[con[c].edge].closed
            /\ ~edge[con[c].edge].closed => FirstClose(R, con[c].edge) = r
       /\ Count(R, "FactoryStop") = 1 /\ R.stopped
       /\ Has(R, "Disconnected") =>
            \A c \in LiveCons : edge[con[c].edge].signalled

\* Run R emits no Disconnected event, or the edge of every connection the
\* tables still hold has reported Closed.
AfterClosed(R) ==
  Has(R, "Disconnected") =>
    \A c \in GetConnections(R.ct) \cup GetConnections(R.rct) :
      R.edge[R.con[c].edge].signalled

\* A Disconnected event is emitted, by Disconnect() or by HandleEdgeClose, only
\* when the edge of every connection the tables still hold has reported Closed.
EmittedAfterClosed ==
  /\ AfterClosed(DisconnectRun(Cur))
  /\ \A e \in Edges :
       CanHandleEdgeClose(e) => AfterClosed(HandleEdgeCloseRun(Signal(Cur, e), e))

NoSideEffect(R) ==
  /\ R.ct = con_tab /\ R.rct = rem_con_tab /\ R.con = con
  /\ R.closed = closed
  /\ \A e \in Edges : R.edge[e].closed = edge[e].closed
  /\ R.out = <<>>

\* C13: a handshake message that is in error (an Inquired response or a
\* CM::Connect without a peer_id, an Inquired, CM::Connect or CM::Close from a
\* sender that is not an edge, an Inquired on an inbound edge) is dropped
\* without side effects: the tables, the connections, the edges' closed flags
\* and the manager's closed flag are unchanged and nothing is sent or emitted.
C13_ErroneousDropped ==
  /\ \A x \in Responses :
       x[2] = EmptyId => NoSideEffect(InquiredRun(Cur, "edge", x[1], EmptyId))
  /\ \A e \in Adopted : NoSideEffect(ConnectRun(Cur, "edge", e, EmptyId))
  /\ \A c \in Cons : IsSender("con", c) =>
       /\ NoSideEffect(CloseRun(Cur, "con", c))
       /\ \A p \in Payloads :
            /\ NoSideEffect(InquiredRun(Cur, "con", c, p))
            /\ NoSideEffect(ConnectRun(Cur, "con", c, p))
  /\ \A e \in Adopted : ~edge[e].outbound =>
       \A p \in Payloads : NoSideEffect(InquiredRun(Cur, "edge", e, p))

\* C13 witness: every kind of erroneous message can arrive: an outbound edge
\* awaits its Inquired response, an inbound edge is open, a connection is live.
C13_Witness ==
  /\ \E e \in Adopted : edge[e].outbound /\ inquire[e] /\ ~edge[e].closed
  /\ \E e \in Adopted : ~edge[e].outbound /\ ~edge[e].closed
  /\ \E c \in Cons : IsSender("con", c) /\ con[c].state = "Live"

\* The adopted edges neither table has a record of.
NoRecord == {e \in Adopted : ~GetEdge(con_tab, e) /\ ~GetEdge(rem_con_tab, e)}

\* The events that can arrive for an edge in neither table: its Closed signal,
\* an Inquired response, a CM::Connect notification.
NoRecordRuns ==
  {HandleEdgeCloseRun(Signal(Cur, e), e) : e \in {x \in NoRecord : CanHandleEdgeClose(x)}}
  \cup {InquiredRun(Cur, "edge", x[1], x[2]) : x \in {y \in Responses : y[1] \in NoRecord}}
  \cup {ConnectRun(Cur, "edge", x[1], x[2]) :
          x \in {y \in NoRecord \X Payloads : CanConnect("edge", y[1], y[2])}}

\* C14: an event for an edge that is in neither table has no side effect: no
\* table entry and no connection state changes, no edge is closed, nothing is
\* sent and no event is emitted.
C14_NoRecordNoEffect == \A R \in NoRecordRuns : NoSideEffect(R)

\* The event loop delivers a queued Closed signal, and (the premise of C15)
\* every adopted edge is eventually closed and reports it.
FairSpec ==
  /\ Spec
  /\ \A e \in Edges : WF_vars(HandleEdgeClose(e)) /\ WF_vars(TransportClose(e))

\* A step in which a handler emits the manager-level Disconnected event.
EmitsDisconnectedStep ==
  \/ Disconnect /\ Has(DisconnectRun(Cur), "Disconnected")
  \/ \E e \in Edges :
       HandleEdgeClose(e) /\ Has(HandleEdgeCloseRun(Signal(Cur, e), e), "Disconnected")

\* The first Disconnect(), called with both tables empty of edges, emits
\* Disconnected before it returns.
ImmediateShutdown ==
  (~closed /\ con_tab.edges = {} /\ rem_con_tab.edges = {}) =>
    Has(DisconnectRun(Cur), "Disconnected")

\* The half of C15 that holds: after Disconnect(), Disconnected is emitted at
\* once when both tables are empty and eventually when every adopted edge
\* reports Closed.
ShutdownEventuallyEmits == []ImmediateShutdown /\ (closed ~> emitted)

\* C15: shutdown completes: the first Disconnect() with both tables empty
\* emits Disconnected before it returns; otherwise, every adopted edge
\* eventually reporting Closed, Disconnected is eventually emitted; and no
\* step emits Disconnected after it has been emitted, so that exactly one
\* Disconnected event occurs per manager lifetime.
C15_ShutdownCompletesOnce ==
  /\ []ImmediateShutdown
  /\ closed ~> emitted
  /\ [][EmitsDisconnectedStep => ~emitted]_vars

\* The CM::Connect notifications that replace a connection: from a parked
\* inbound edge (in the inbound table, with no connection on it) and naming a
\* peer the inbound table has a connection to.
Replacements ==
  {x \in Adopted \X Ids :
     /\ ~edge[x[1]].outbound /\ GetEdge(rem_con_tab, x[1])
     /\ \A c \in Cons : Alive(con, c) => con[c].edge # x[1]
     /\ GetConnection(rem_con_tab, x[2]) # NoCon
     /\ CanConnect("edge", x[1], x[2])}

\* C16: a CM::Connect(remote_id) from a parked inbound edge, when the inbound
\* table has a connection for remote_id, first disconnects the old connection
\* (out of the PeerId map, CM::Disconnect sent on it, its edge closed) and then
\* creates a connection on the arriving edge, registers it as the inbound
\* table's connection for remote_id and announces it by NewConnection(con, false).
C16_InboundReplacement ==
  \A x \in Replacements : \A R \in {ConnectRun(Cur, "edge", x[1], x[2])} :
    LET old == GetConnection(rem_con_tab, x[2])
        c == NextCon
    IN /\ R.con[old].state = "DisconnectRequested"
       /\ \A p \in Ids : GetConnection(R.rct, p) # old
       /\ R.edge[con[old].edge].closed
       /\ R.con[c] = [state |-> "Live", edge |-> x[1], remote_id |-> x[2]]
       /\ GetConnection(R.rct, x[2]) = c
       /\ R.ct = con_tab
       /\ R.out = <<Ev("SendDisconnect", con[old].edge, old, ""),
                    Ev("EdgeClose", con[old].edge, old, "Local disconnect request"),
                    Ev("NewConnection", x[1], c, "remote")>>

\* C16 witness: such a CM::Connect can arrive on an open edge while the old
\* connection's edge is open.
C16_Witness ==
  \E x \in Replacements :
    /\ ~edge[x[1]].closed
    /\ ~edge[con[GetConnection(rem_con_tab, x[2])].edge].closed

\* C17: once Disconnect() has been called, no HandleNewEdge, Inquired response
\* or CM::Connect notification creates a connection or emits NewConnection.
C17_NoConnectionAfterDisconnect ==
  closed => \A R \in PromotionRuns :
    /\ ~Has(R, "NewConnection")
    /\ \A c \in Cons : con[c].state = "None" => R.con[c].state = "None"

\* C18: no connection a table holds has the manager's LocalId as its remote
\* id, and no Inquired response or CM::Connect notification announces one.
C18_NoConnectionToSelf ==
  /\ \A c \in GetConnections(con_tab) \cup GetConnections(rem_con_tab) :
       con[c].remote_id # LocalId
  /\ \A R \in PromotionRuns : \A ev \in Events(R, "NewConnection") :
       R.con[ev.con].remote_id # LocalId

\* C19: when the manager-level Disconnected event is emitted, neither table
\* holds a connection.
C19_NoConnectionAtDisconnected ==
  \A R \in DisconnectedRuns : Has(R, "Disconnected") =>
    GetConnections(R.ct) = {} /\ GetConnections(R.rct) = {}

====
